---- MODULE Spec2Model ----
(***************************************************************************)
(* NBON (mortie/sbon, cpp/include/nbon.h): the tagged byte-stream writer   *)
(* and reader, their LEB128 integer codec, the container framing and the   *)
(* ready_ flag that guards a handle while one of its scopes is open.       *)
(*                                                                         *)
(* A byte is a number 0..255.  A 64-bit word is kept as four 16-bit limbs, *)
(* least significant first, so that all arithmetic is exact; an int64_t is *)
(* the word of its two's complement.  A 32-bit word uses the low two limbs.*)
(***************************************************************************)
EXTENDS Integers, Sequences, FiniteSets, TLC

VARIABLES
  mode,    \* which program runs: "scalar", "writer" or "reader"
  phase,   \* where that program is
  os,      \* the bytes of the stream (the ostream written, the istream read)
  pos,     \* the istream's cursor: the number of bytes consumed
  hs,      \* the handles created so far: kind, ready_ and (ghost) home scope
  stack,   \* the writeArray/writeObject/getArray/getObject calls whose callback runs
  exc,     \* the exception in flight, "none" when there is none
  last,    \* the last operation: handle, name, outcome
  wrote,   \* scalar program: the value handed to the Writer
  got,     \* the outcome of decoding
  sk,      \* the outcome of Reader::skip
  rk,      \* the number of bytes of os given to the Reader
  sc,      \* ghost, per open scope: its kind and the handle entitled to a value
  acc,     \* ghost, per open scope: the keys and values written so far
  clean,   \* ghost: every write so far went through the entitled handle
  nops,    \* operations issued
  nscope,  \* scopes opened
  terms    \* ghost: terminators written or consumed, closings that found none

vars == <<mode, phase, os, pos, hs, stack, exc, last, wrote, got, sk, rk, sc, acc,
          clean, nops, nscope, terms>>

\* ------------------------------------------------------------------ bounds
MaxStrLen == 2
MaxBinLen == 2
MaxOps == 3
MaxBytes == 6

\* -------------------------------------------------------- wire vocabulary
TagTrue == 84
TagFalse == 70
TagNull == 78
TagString == 83
TagFloat == 102
TagDouble == 100
TagBinary == 66
TagMinus == 45
TagPlus == 43
TagZero == 48
TagArray == 91
TagArrayEnd == 93
TagObject == 123
TagObjectEnd == 125
EOF == -1

\* ------------------------------------------------------- machine integers
W16 == 2^16
W8 == 2^8

RECURSIVE BitOr(_, _)
BitOr(a, b) ==
  IF a = 0 THEN b
  ELSE IF b = 0 THEN a
  ELSE (IF a % 2 = 1 \/ b % 2 = 1 THEN 1 ELSE 0) + 2 * BitOr(a \div 2, b \div 2)

Zero64 == <<0, 0, 0, 0>>
U64(n) == <<n % W16, n \div W16, 0, 0>>
Int64Min == <<0, 0, 0, W16 \div 2>>
Int64Max == <<W16 - 1, W16 - 1, W16 - 1, (W16 \div 2) - 1>>

\* x + y modulo 2^64
Add64(x, y) ==
  LET s1 == x[1] + y[1]
      s2 == x[2] + y[2] + (s1 \div W16)
      s3 == x[3] + y[3] + (s2 \div W16)
      s4 == x[4] + y[4] + (s3 \div W16)
  IN  <<s1 % W16, s2 % W16, s3 % W16, s4 % W16>>

\* -x modulo 2^64 (the bits of -num for an int64_t num other than the minimum)
Neg64(x) ==
  Add64(<<W16 - 1 - x[1], W16 - 1 - x[2], W16 - 1 - x[3], W16 - 1 - x[4]>>, U64(1))

Or64(x, y) == <<BitOr(x[1], y[1]), BitOr(x[2], y[2]), BitOr(x[3], y[3]), BitOr(x[4], y[4])>>

\* num >> 7
Shr7(x) ==
  <<(x[1] \div 128) + (x[2] % 128) * 512,
    (x[2] \div 128) + (x[3] % 128) * 512,
    (x[3] \div 128) + (x[4] % 128) * 512,
    x[4] \div 128>>

\* (uint64_t)g << s for g < 2^8 and s < 64; the bits shifted past bit 63 are lost
Shl64(g, s) ==
  LET i == s \div 16
      v == g * 2^(s % 16)
      lo == v % W16
      hi == v \div W16
  IN  <<IF i = 0 THEN lo ELSE 0,
        IF i = 1 THEN lo ELSE IF i = 0 THEN hi ELSE 0,
        IF i = 2 THEN lo ELSE IF i = 1 THEN hi ELSE 0,
        IF i = 3 THEN lo ELSE IF i = 2 THEN hi ELSE 0>>

IsNeg64(x) == x[4] >= W16 \div 2
Small64(x) == x[2] = 0 /\ x[3] = 0 /\ x[4] = 0

\* byte i (0 = least significant) of a word: (n & (0xff << 8i)) >> 8i
ByteOf(x, i) == (x[(i \div 2) + 1] \div (W8 ^ (i % 2))) % W8

\* --------------------------------------------------------------- values
V(t, f, n, b, k, c) == [t |-> t, f |-> f, n |-> n, b |-> b, k |-> k, c |-> c]
VBool(f) == V("bool", f, Zero64, <<>>, <<>>, <<>>)
VNil == V("nil", FALSE, Zero64, <<>>, <<>>, <<>>)
VString(b) == V("string", FALSE, Zero64, b, <<>>, <<>>)
VBinary(b) == V("binary", FALSE, Zero64, b, <<>>, <<>>)
VFloat(n) == V("float", FALSE, n, <<>>, <<>>, <<>>)
VDouble(n) == V("double", FALSE, n, <<>>, <<>>, <<>>)
VInt(n) == V("int", FALSE, n, <<>>, <<>>, <<>>)
VUInt(n) == V("uint", FALSE, n, <<>>, <<>>, <<>>)
VArray(c) == V("array", FALSE, Zero64, <<>>, <<>>, c)
VObject(k, c) == V("object", FALSE, Zero64, <<>>, k, c)
NoValue == V("none", FALSE, Zero64, <<>>, <<>>, <<>>)

\* ------------------------------------------------------------- Writer

\* the continuation test written num >= 0x7f
RECURSIVE writeLEB128_OffByOne(_)
writeLEB128_OffByOne(num) ==
  LET hi == IF ~Small64(num) \/ num[1] >= 127 THEN 128 ELSE 0
      byte == BitOr(hi, num[1] % 128)
      rest == Shr7(num)
  IN  IF rest /= Zero64 THEN <<byte>> \o writeLEB128_OffByOne(rest) ELSE <<byte>>

RECURSIVE writeLEB128(_)
writeLEB128(num) ==
  LET hi == IF ~Small64(num) \/ num[1] > 127 THEN 128 ELSE 0
      byte == BitOr(hi, num[1] % 128)
      rest == Shr7(num)
  IN  IF rest /= Zero64 THEN <<byte>> \o writeLEB128(rest) ELSE <<byte>>

writeTrue == <<TagTrue>>
writeFalse == <<TagFalse>>
writeBool(b) == IF b THEN writeTrue ELSE writeFalse
writeNull == <<TagNull>>
writeString(str) == <<TagString>> \o str \o <<0>>
writeFloat(n) == <<TagFloat, ByteOf(n, 0), ByteOf(n, 1), ByteOf(n, 2), ByteOf(n, 3)>>
writeDouble(n) ==
  <<TagDouble, ByteOf(n, 0), ByteOf(n, 1), ByteOf(n, 2), ByteOf(n, 3),
    ByteOf(n, 4), ByteOf(n, 5), ByteOf(n, 6), ByteOf(n, 7)>>
writeBinary(data) == <<TagBinary>> \o writeLEB128(U64(Len(data))) \o data

writeInt(num) ==
  IF num = Int64Min THEN <<TagMinus>> \o writeLEB128(Add64(Int64Max, U64(1)))
  ELSE IF IsNeg64(num) THEN <<TagMinus>> \o writeLEB128(Neg64(num))
  ELSE IF Small64(num) /\ num[1] <= 9 THEN <<TagZero + num[1]>>
  ELSE <<TagPlus>> \o writeLEB128(num)

writeUInt(num) ==
  IF Small64(num) /\ num[1] <= 9 THEN <<TagZero + num[1]>>
  ELSE <<TagPlus>> \o writeLEB128(num)

\* The bytes a Writer operation emits for a scalar value.
writeScalar(v) ==
  CASE v.t = "bool" -> writeBool(v.f)
    [] v.t = "nil" -> writeNull
    [] v.t = "string" -> writeString(v.b)
    [] v.t = "binary" -> writeBinary(v.b)
    [] v.t = "float" -> writeFloat(v.n)
    [] v.t = "double" -> writeDouble(v.n)
    [] v.t = "int" -> writeInt(v.n)
    [] v.t = "uint" -> writeUInt(v.n)

\* ------------------------------------------------------------- Reader
\* An operation on the stream `is` with the cursor before byte p+1 gives
\* [err, pos, val]: the error thrown ("none" on a normal return), the cursor
\* afterwards and the value returned.
R(err, p, val) == [err |-> err, pos |-> p, val |-> val]

\* std::istream::peek and ::get ; get at end of input consumes nothing
peek(is, p) == IF p < Len(is) THEN is[p + 1] ELSE EOF
get(is, p) == [ch |-> peek(is, p), pos |-> IF p < Len(is) THEN p + 1 ELSE p]

next(is, p) ==
  LET g == get(is, p)
  IN  IF g.ch = EOF THEN [err |-> "ParseError", pos |-> g.pos, ch |-> 0]
      ELSE [err |-> "none", pos |-> g.pos, ch |-> g.ch]

RECURSIVE LEBLoop(_, _, _, _)
LEBLoop(is, p, num, shift) ==
  LET r == next(is, p)
  IN  IF r.err /= "none" THEN R(r.err, r.pos, VUInt(num))
      ELSE IF shift >= 64 THEN R("Undefined", r.pos, VUInt(num))
      ELSE LET num2 == Or64(num, Shl64(r.ch % 128, shift))
           IN  IF r.ch >= 128 THEN LEBLoop(is, r.pos, num2, shift + 7)
               ELSE R("none", r.pos, VUInt(num2))

nextLEB128(is, p) == LEBLoop(is, p, Zero64, 0)

getBool(is, p) ==
  LET g == get(is, p)
  IN  IF g.ch = TagTrue THEN R("none", g.pos, VBool(TRUE))
      ELSE IF g.ch = TagFalse THEN R("none", g.pos, VBool(FALSE))
      ELSE R("ParseError", g.pos, NoValue)

getNil(is, p) ==
  LET g == get(is, p)
  IN  IF g.ch /= TagNull THEN R("ParseError", g.pos, NoValue)
      ELSE R("none", g.pos, VNil)

RECURSIVE StringLoop(_, _, _)
StringLoop(is, p, s) ==
  LET r == next(is, p)
  IN  IF r.err /= "none" THEN R(r.err, r.pos, NoValue)
      ELSE IF r.ch = 0 THEN R("none", r.pos, VString(s))
      ELSE StringLoop(is, r.pos, Append(s, r.ch))

getString(is, p) ==
  LET g == get(is, p)
  IN  IF g.ch /= TagString THEN R("ParseError", g.pos, NoValue)
      ELSE StringLoop(is, g.pos, <<>>)

RECURSIVE SkipStringLoop(_, _)
SkipStringLoop(is, p) ==
  LET r == next(is, p)
  IN  IF r.err /= "none" THEN R(r.err, r.pos, NoValue)
      ELSE IF r.ch = 0 THEN R("none", r.pos, NoValue)
      ELSE SkipStringLoop(is, r.pos)

skipString(is, p) ==
  LET g == get(is, p)
  IN  IF g.ch /= TagString THEN R("ParseError", g.pos, NoValue)
      ELSE SkipStringLoop(is, g.pos)

\* size is below 2^31 wherever the loops below are entered in this model
SizeOf(n) == n[1] + W16 * n[2]

\* while (bin.size() < size) bin.push_back(next()): size calls of next(), the
\* first of them at the end of input throwing
BinaryLoop(is, p, size) ==
  IF Len(is) - p >= size
  THEN R("none", p + size, VBinary(SubSeq(is, p + 1, p + size)))
  ELSE R("ParseError", Len(is), NoValue)

getBinary(is, p) ==
  LET g == get(is, p)
  IN  IF g.ch /= TagBinary THEN R("ParseError", g.pos, NoValue)
      ELSE LET l == nextLEB128(is, g.pos)
           IN  IF l.err /= "none" THEN R(l.err, l.pos, NoValue)
               ELSE BinaryLoop(is, l.pos, SizeOf(l.val.n))

\* while (size > 0) { next(); size -= 1; }
SkipBinaryLoop(is, p, size) ==
  IF Len(is) - p >= size
  THEN R("none", p + size, NoValue)
  ELSE R("ParseError", Len(is), NoValue)

skipBinary(is, p) ==
  LET g == get(is, p)
  IN  IF g.ch /= TagBinary THEN R("ParseError", g.pos, NoValue)
      ELSE LET l == nextLEB128(is, g.pos)
           IN  IF l.err /= "none" THEN R(l.err, l.pos, NoValue)
               ELSE SkipBinaryLoop(is, l.pos, SizeOf(l.val.n))

\* n |= (uintN_t)(unsigned char)next() << 8i, for i = 0 .. count-1
RECURSIVE FixedLoop(_, _, _, _, _)
FixedLoop(is, p, n, i, count) ==
  IF i < count
  THEN LET r == next(is, p)
       IN  IF r.err /= "none" THEN R(r.err, r.pos, NoValue)
           ELSE FixedLoop(is, r.pos, Or64(n, Shl64(r.ch, 8 * i)), i + 1, count)
  ELSE R("none", p, VUInt(n))

getFloat(is, p) ==
  LET g == get(is, p)
  IN  IF g.ch /= TagFloat THEN R("ParseError", g.pos, NoValue)
      ELSE LET r == FixedLoop(is, g.pos, Zero64, 0, 4)
           IN  IF r.err /= "none" THEN r ELSE R("none", r.pos, VFloat(r.val.n))

getDouble(is, p) ==
  LET g == get(is, p)
  IN  IF g.ch /= TagDouble THEN R("ParseError", g.pos, NoValue)
      ELSE LET r == FixedLoop(is, g.pos, Zero64, 0, 8)
           IN  IF r.err /= "none" THEN r ELSE R("none", r.pos, VDouble(r.val.n))

IsDigit(ch) == ch >= TagZero /\ ch <= TagZero + 9

\* the '-' branch returning the magnitude
getInt_SignDropped(is, p) ==
  LET r == next(is, p)
  IN  IF r.err /= "none" THEN R(r.err, r.pos, NoValue)
      ELSE IF IsDigit(r.ch) THEN R("none", r.pos, VInt(U64(r.ch - TagZero)))
      ELSE IF r.ch = TagPlus \/ r.ch = TagMinus
        THEN LET l == nextLEB128(is, r.pos)
             IN  IF l.err /= "none" THEN R(l.err, l.pos, NoValue)
                 ELSE R("none", l.pos, VInt(l.val.n))
      ELSE R("ParseError", r.pos, NoValue)

getInt(is, p) ==
  LET r == next(is, p)
  IN  IF r.err /= "none" THEN R(r.err, r.pos, NoValue)
      ELSE IF IsDigit(r.ch) THEN R("none", r.pos, VInt(U64(r.ch - TagZero)))
      ELSE IF r.ch = TagPlus
        THEN LET l == nextLEB128(is, r.pos)
             IN  IF l.err /= "none" THEN R(l.err, l.pos, NoValue)
                 ELSE R("none", l.pos, VInt(l.val.n))
      ELSE IF r.ch = TagMinus
        THEN LET l == nextLEB128(is, r.pos)
             IN  IF l.err /= "none" THEN R(l.err, l.pos, NoValue)
                 ELSE R("none", l.pos, VInt(Neg64(l.val.n)))
      ELSE R("ParseError", r.pos, NoValue)

getUInt(is, p) ==
  LET r == next(is, p)
  IN  IF r.err /= "none" THEN R(r.err, r.pos, NoValue)
      ELSE IF IsDigit(r.ch) THEN R("none", r.pos, VUInt(U64(r.ch - TagZero)))
      ELSE IF r.ch = TagPlus
        THEN LET l == nextLEB128(is, r.pos)
             IN  IF l.err /= "none" THEN R(l.err, l.pos, NoValue)
                 ELSE R("none", l.pos, VUInt(l.val.n))
      ELSE R("ParseError", r.pos, NoValue)

\* The Reader operation that matches a scalar type.
getScalar(t, is, p) ==
  CASE t = "bool" -> getBool(is, p)
    [] t = "nil" -> getNil(is, p)
    [] t = "string" -> getString(is, p)
    [] t = "binary" -> getBinary(is, p)
    [] t = "float" -> getFloat(is, p)
    [] t = "double" -> getDouble(is, p)
    [] t = "int" -> getInt(is, p)
    [] t = "uint" -> getUInt(is, p)

getType(is, p) ==
  LET ch == peek(is, p)
      ty == IF ch = TagTrue \/ ch = TagFalse THEN "BOOL"
            ELSE IF ch = TagNull THEN "NIL"
            ELSE IF ch = TagFloat THEN "FLOAT"
            ELSE IF ch = TagDouble THEN "DOUBLE"
            ELSE IF ch = TagString THEN "STRING"
            ELSE IF ch = TagBinary THEN "BINARY"
            ELSE IF ch = TagPlus \/ IsDigit(ch) THEN "UINT"
            ELSE IF ch = TagMinus THEN "INT"
            ELSE IF ch = TagArray THEN "ARRAY"
            ELSE IF ch = TagObject THEN "OBJECT"
            ELSE "ParseError"
  IN  IF ch = EOF \/ ty = "ParseError" THEN [err |-> "ParseError", type |-> "NONE"]
      ELSE [err |-> "none", type |-> ty]

ArrayHasNext(is, p) == peek(is, p) /= TagArrayEnd /\ peek(is, p) /= EOF
ObjectHasNext(is, p) == peek(is, p) /= TagObjectEnd /\ peek(is, p) /= EOF

\* ObjectReader::next: the key bytes up to the NUL, which is consumed
RECURSIVE KeyLoop(_, _, _)
KeyLoop(is, p, key) ==
  LET g == get(is, p)
  IN  IF g.ch = EOF THEN R("ParseError", g.pos, NoValue)
      ELSE IF g.ch = 0 THEN R("none", g.pos, VString(key))
      ELSE KeyLoop(is, g.pos, Append(key, g.ch))

ObjectNext(is, p) == KeyLoop(is, p, <<>>)

\* The byte getArray / getObject reads once the callback has returned.
CloseScope(is, p, term) ==
  LET r == next(is, p)
  IN  IF r.err /= "none" THEN R(r.err, r.pos, NoValue)
      ELSE IF r.ch /= term THEN R("ParseError", r.pos, NoValue)
      ELSE R("none", r.pos, NoValue)

\* The byte getArray / getObject reads before it calls the callback.
OpenScope(is, p, tag) ==
  LET r == next(is, p)
  IN  IF r.err /= "none" THEN R(r.err, r.pos, NoValue)
      ELSE IF r.ch /= tag THEN R("ParseError", r.pos, NoValue)
      ELSE R("none", r.pos, NoValue)

\* Reader::skip: getType, then the operation of that type; readArray and
\* readObject run ArrayReader::all / ObjectReader::all with a skipping callback.
RECURSIVE skip(_, _), SkipArrayAll(_, _), SkipObjectAll(_, _)
skip(is, p) ==
  LET t == getType(is, p)
  IN  IF t.err /= "none" THEN R(t.err, p, NoValue)
      ELSE CASE t.type = "BOOL" -> getBool(is, p)
             [] t.type = "NIL" -> getNil(is, p)
             [] t.type = "STRING" -> skipString(is, p)
             [] t.type = "BINARY" -> skipBinary(is, p)
             [] t.type = "FLOAT" -> getFloat(is, p)
             [] t.type = "DOUBLE" -> getDouble(is, p)
             [] t.type = "INT" -> getInt(is, p)
             [] t.type = "UINT" -> getUInt(is, p)
             [] t.type = "ARRAY" ->
                  LET o == OpenScope(is, p, TagArray)
                  IN  IF o.err /= "none" THEN o
                      ELSE LET a == SkipArrayAll(is, o.pos)
                           IN  IF a.err /= "none" THEN a
                               ELSE CloseScope(is, a.pos, TagArrayEnd)
             [] t.type = "OBJECT" ->
                  LET o == OpenScope(is, p, TagObject)
                  IN  IF o.err /= "none" THEN o
                      ELSE LET a == SkipObjectAll(is, o.pos)
                           IN  IF a.err /= "none" THEN a
                               ELSE CloseScope(is, a.pos, TagObjectEnd)

SkipArrayAll(is, p) ==
  IF ArrayHasNext(is, p)
  THEN LET r == skip(is, p)
       IN  IF r.err /= "none" THEN r ELSE SkipArrayAll(is, r.pos)
  ELSE R("none", p, NoValue)

SkipObjectAll(is, p) ==
  IF ObjectHasNext(is, p)
  THEN LET k == ObjectNext(is, p)
       IN  IF k.err /= "none" THEN k
           ELSE LET r == skip(is, k.pos)
                IN  IF r.err /= "none" THEN r ELSE SkipObjectAll(is, r.pos)
  ELSE R("none", p, NoValue)

\* Full decoding with the type-specific operations: the same dispatch as skip,
\* with getString / getBinary keeping the bytes and the callbacks of
\* ArrayReader::all / ObjectReader::all collecting the entries in order.
RECURSIVE decode(_, _), DecodeArrayAll(_, _, _), DecodeObjectAll(_, _, _, _)
decode(is, p) ==
  LET t == getType(is, p)
  IN  IF t.err /= "none" THEN R(t.err, p, NoValue)
      ELSE CASE t.type = "BOOL" -> getBool(is, p)
             [] t.type = "NIL" -> getNil(is, p)
             [] t.type = "STRING" -> getString(is, p)
             [] t.type = "BINARY" -> getBinary(is, p)
             [] t.type = "FLOAT" -> getFloat(is, p)
             [] t.type = "DOUBLE" -> getDouble(is, p)
             [] t.type = "INT" -> getInt(is, p)
             [] t.type = "UINT" -> getUInt(is, p)
             [] t.type = "ARRAY" ->
                  LET o == OpenScope(is, p, TagArray)
                  IN  IF o.err /= "none" THEN o
                      ELSE LET a == DecodeArrayAll(is, o.pos, <<>>)
                           IN  IF a.err /= "none" THEN a
                               ELSE LET c == CloseScope(is, a.pos, TagArrayEnd)
                                    IN  IF c.err /= "none" THEN c
                                        ELSE R("none", c.pos, a.val)
             [] t.type = "OBJECT" ->
                  LET o == OpenScope(is, p, TagObject)
                  IN  IF o.err /= "none" THEN o
                      ELSE LET a == DecodeObjectAll(is, o.pos, <<>>, <<>>)
                           IN  IF a.err /= "none" THEN a
                               ELSE LET c == CloseScope(is, a.pos, TagObjectEnd)
                                    IN  IF c.err /= "none" THEN c
                                        ELSE R("none", c.pos, a.val)

DecodeArrayAll(is, p, elems) ==
  IF ArrayHasNext(is, p)
  THEN LET r == decode(is, p)
       IN  IF r.err /= "none" THEN r
           ELSE DecodeArrayAll(is, r.pos, Append(elems, r.val))
  ELSE R("none", p, VArray(elems))

DecodeObjectAll(is, p, keys, elems) ==
  IF ObjectHasNext(is, p)
  THEN LET k == ObjectNext(is, p)
       IN  IF k.err /= "none" THEN k
           ELSE LET r == decode(is, k.pos)
                IN  IF r.err /= "none" THEN r
                    ELSE DecodeObjectAll(is, r.pos, Append(keys, k.val.b),
                                         Append(elems, r.val))
  ELSE R("none", p, VObject(keys, elems))

\* ---------------------------------------------------------------- inputs
Seqs(S, n) == UNION {[1..m -> S] : m \in 0..n}

LimbLow == {0, 1, 9, 10, 127, 128, W16 \div 2, W16 - 128, W16 - 127, W16 - 10, W16 - 9, W16 - 1}
LimbHigh == {0, (W16 \div 2) - 1, W16 \div 2, W16 - 1}
Words64 == {<<a, b, c, d>> : a \in LimbLow, b \in LimbHigh, c \in LimbHigh, d \in LimbHigh}
Words32 == {<<a, b, 0, 0>> : a \in LimbLow, b \in LimbHigh \cup {16672, 32640}}
StrBytes == {1, 65, TagArrayEnd, TagObjectEnd, 128, 255}
BinBytes == {0, 1, TagArrayEnd, 255}
LongBin == [i \in 1..130 |-> i % 7]
Strings == Seqs(StrBytes, MaxStrLen)
Binaries == Seqs(BinBytes, MaxBinLen) \cup {LongBin}

NoResult == R("none", 0, NoValue)
\* ghost: terminators written or consumed, and closings that met no terminator
NoTerms == [n |-> 0, miss |-> 0]
NoLast == [h |-> 0, op |-> "none", res |-> "ok", moved |-> FALSE, susp |-> FALSE,
           inner |-> TRUE]

\* ------------------------------------------------- program 1: one scalar
\* A fresh Writer on an empty stream writes one value; a fresh Reader on the
\* bytes reads it with the operation of the same type.
InitScalar ==
  /\ mode = "scalar" /\ phase = "start"
  /\ os = <<>> /\ pos = 0
  /\ hs = <<>> /\ stack = <<>> /\ exc = "none" /\ last = NoLast
  /\ wrote = NoValue /\ got = NoResult /\ sk = NoResult /\ rk = 0
  /\ sc = <<>> /\ acc = <<>> /\ clean = FALSE
  /\ nops = 0 /\ nscope = 0 /\ terms = NoTerms

\* The program holds a fresh Writer and has written nothing yet.
ScalarReady == mode = "scalar" /\ phase = "start"

ScalarWrite(v) ==
  /\ ScalarReady
  /\ os' = os \o writeScalar(v)
  /\ wrote' = v
  /\ phase' = "written"
  /\ UNCHANGED <<mode, pos, hs, stack, exc, last, got, sk, rk, sc, acc, clean, nops,
                 nscope, terms>>

WriteBoolOp == ScalarReady /\ \E f \in BOOLEAN : ScalarWrite(VBool(f))
WriteNullOp == ScalarWrite(VNil)
WriteStringOp == ScalarReady /\ \E b \in Strings : ScalarWrite(VString(b))
WriteBinaryOp == ScalarReady /\ \E b \in Binaries : ScalarWrite(VBinary(b))
WriteFloatOp == ScalarReady /\ \E n \in Words32 : ScalarWrite(VFloat(n))
WriteDoubleOp == ScalarReady /\ \E n \in Words64 : ScalarWrite(VDouble(n))
WriteIntOp == ScalarReady /\ \E n \in Words64 : ScalarWrite(VInt(n))
WriteUIntOp == ScalarReady /\ \E n \in Words64 : ScalarWrite(VUInt(n))

ScalarGet ==
  /\ mode = "scalar" /\ phase = "written"
  /\ got' = getScalar(wrote.t, os, pos)
  /\ pos' = got'.pos
  /\ exc' = got'.err
  /\ phase' = "read"
  /\ UNCHANGED <<mode, os, hs, stack, last, wrote, sk, rk, sc, acc, clean, nops,
                 nscope, terms>>

NextScalar ==
  \/ WriteBoolOp \/ WriteNullOp \/ WriteStringOp \/ WriteBinaryOp
  \/ WriteFloatOp \/ WriteDoubleOp \/ WriteIntOp \/ WriteUIntOp
  \/ ScalarGet

SpecScalar == InitScalar /\ [][NextScalar]_vars

\* ------------------------------------- program 2: a Writer and its handles
\* The handles are numbered in the order they are created; handle 1 is the
\* Writer the program constructs on the stream.  A frame of `stack` is a
\* writeArray / writeObject call whose callback is running.
Handle(kind, home) == [kind |-> kind, ready |-> TRUE, home |-> home]
Frame(id, kind, opener) == [id |-> id, kind |-> kind, opener |-> opener]
Scope(kind, vh) == [kind |-> kind, vh |-> vh]
Part == [k |-> <<>>, c |-> <<>>]

CurScope == IF stack = <<>> THEN 0 ELSE stack[Len(stack)].id
HasOpenScope(h) == \E i \in 1..Len(stack) : stack[i].opener = h
Pop(q) == SubSeq(q, 1, Len(q) - 1)
TopOf(q) == q[Len(q)]
SetTop(q, x) == [q EXCEPT ![Len(q)] = x]

\* ghost: the value handle of an object entry is spent by its one value
\* (so is the Reader that ArrayReader::next hands out for one element)
Spend(q) ==
  IF TopOf(q).kind \in {"object", "elements"} THEN SetTop(q, Scope(TopOf(q).kind, 0)) ELSE q
\* ghost: a value joins the innermost open container
AddValue(q, v) == SetTop(q, [TopOf(q) EXCEPT !.c = Append(@, v)])
AddKey(q, key) == SetTop(q, [TopOf(q) EXCEPT !.k = Append(@, key)])

WriterOps ==
  {[op |-> "writeTrue", v |-> VBool(TRUE)], [op |-> "writeFalse", v |-> VBool(FALSE)],
   [op |-> "writeBool", v |-> VBool(TRUE)], [op |-> "writeBool", v |-> VBool(FALSE)],
   [op |-> "writeNull", v |-> VNil], [op |-> "writeString", v |-> VString(<<120>>)],
   [op |-> "writeFloat", v |-> VFloat(<<0, 16672, 0, 0>>)],
   [op |-> "writeDouble", v |-> VDouble(<<0, 0, 0, 16420>>)],
   [op |-> "writeBinary", v |-> VBinary(<<0>>)],
   [op |-> "writeInt", v |-> VInt(Neg64(U64(1)))], [op |-> "writeInt", v |-> VInt(U64(2))],
   [op |-> "writeUInt", v |-> VUInt(U64(4))]}
Keys == {<<120>>, <<TagObjectEnd>>}

InitWriter ==
  /\ mode = "writer" /\ phase = "run"
  /\ os = <<>> /\ pos = 0
  /\ hs = <<Handle("Writer", 0)>> /\ stack = <<>> /\ exc = "none" /\ last = NoLast
  /\ wrote = NoValue /\ got = NoResult /\ sk = NoResult /\ rk = 0
  /\ sc = <<Scope("top", 1)>> /\ acc = <<Part>> /\ clean = TRUE
  /\ nops = 0 /\ nscope = 0 /\ terms = NoTerms

CanIssue(m) == mode = m /\ phase = "run" /\ exc = "none" /\ nops < MaxOps

\* a checkReady that never throws
checkReady_Never(h) == TRUE

\* Writer::checkReady / Reader::checkReady: TRUE when it does not throw
checkReady(h) == hs[h].ready

\* writeArray / writeObject leaving ready_ as it is
Suspend_Forgotten(h) == hs

\* ready_ = false before func is called, ready_ = true after it has returned
Suspend(h) == [hs EXCEPT ![h].ready = FALSE]
Resume(h) == [hs EXCEPT ![h].ready = TRUE]

\* a key without its NUL
keyBytes_NoNul(key) == key

\* the bytes ObjectWriter::key emits
keyBytes(key) == key \o <<0>>
OpenTag(kind) == IF kind = "array" THEN TagArray ELSE TagObject
CloseTag(kind) == IF kind = "array" THEN TagArrayEnd ELSE TagObjectEnd

\* writeTrue .. writeUInt on the Writer handle h
WriteScalar(h, o) ==
  /\ CanIssue("writer") /\ Len(os) < MaxBytes
  /\ hs[h].kind = "Writer"
  /\ LET ok == checkReady(h)
         inner == (TopOf(sc).vh = h)
     IN  /\ os' = IF ok THEN os \o writeScalar(o.v) ELSE os
         /\ exc' = IF ok THEN "none" ELSE "LogicError"
         /\ last' = [h |-> h, op |-> o.op, res |-> exc', moved |-> os' /= os,
                     susp |-> HasOpenScope(h), inner |-> inner]
         /\ clean' = (clean /\ (ok => inner))
         /\ acc' = IF ~clean' THEN <<>> ELSE IF ok THEN AddValue(acc, o.v) ELSE acc
         /\ sc' = IF ok /\ inner THEN Spend(sc) ELSE sc
  /\ nops' = nops + 1
  /\ UNCHANGED <<mode, phase, pos, hs, stack, wrote, got, sk, rk, nscope, terms>>

\* writeArray / writeObject on the Writer handle h, up to the call of func
WriteOpen(h, kind) ==
  /\ CanIssue("writer") /\ Len(os) < MaxBytes
  /\ hs[h].kind = "Writer"
  /\ LET ok == checkReady(h)
         inner == (TopOf(sc).vh = h)
         child == Len(hs) + 1
     IN  /\ os' = IF ~ok THEN os
                  ELSE os \o <<OpenTag(kind)>>
         /\ exc' = IF ok THEN "none" ELSE "LogicError"
         /\ last' = [h |-> h, op |-> IF kind = "array" THEN "writeArray" ELSE "writeObject",
                     res |-> exc', moved |-> os' /= os,
                     susp |-> HasOpenScope(h), inner |-> inner]
         /\ hs' = IF ~ok THEN hs
                  ELSE Append(Suspend(h),
                              Handle(IF kind = "array" THEN "Writer" ELSE "ObjectWriter",
                                     nscope + 1))
         /\ stack' = IF ok THEN Append(stack, Frame(nscope + 1, kind, h)) ELSE stack
         /\ nscope' = IF ok THEN nscope + 1 ELSE nscope
         /\ clean' = (clean /\ (ok => inner))
         /\ acc' = IF ~clean' THEN <<>> ELSE IF ok THEN Append(acc, Part) ELSE acc
         /\ sc' = IF ~ok THEN sc
                  ELSE Append(IF inner THEN Spend(sc) ELSE sc,
                              Scope(kind, IF kind = "array" THEN child ELSE 0))
  /\ nops' = nops + 1
  /\ UNCHANGED <<mode, phase, pos, wrote, got, sk, rk, terms>>

\* ObjectWriter::key on the ObjectWriter handle h
WriteKey(h, key) ==
  /\ CanIssue("writer") /\ Len(os) < MaxBytes
  /\ hs[h].kind = "ObjectWriter"
  /\ LET inner == (hs[h].home = CurScope /\ TopOf(sc).vh = 0)
     IN  /\ os' = os \o keyBytes(key)
         /\ hs' = Append(hs, Handle("Writer", hs[h].home))
         /\ last' = [h |-> h, op |-> "key", res |-> "none", moved |-> os' /= os,
                     susp |-> HasOpenScope(h), inner |-> inner]
         /\ clean' = (clean /\ inner)
         /\ acc' = IF clean' THEN AddKey(acc, key) ELSE <<>>
         /\ sc' = IF inner THEN SetTop(sc, Scope(TopOf(sc).kind, Len(hs) + 1)) ELSE sc
  /\ nops' = nops + 1
  /\ UNCHANGED <<mode, phase, pos, stack, exc, wrote, got, sk, rk, nscope, terms>>

\* ghost: the container just closed joins the scope around it
Fold(q, kind) ==
  LET part == TopOf(q)
      v == IF kind = "array" THEN VArray(part.c) ELSE VObject(part.k, part.c)
  IN  AddValue(Pop(q), v)

\* func returns: the rest of writeArray / writeObject
WriteReturn ==
  /\ mode = "writer" /\ phase = "run" /\ exc = "none" /\ stack /= <<>>
  /\ LET f == TopOf(stack)
     IN  /\ hs' = Resume(f.opener)
         /\ os' = os \o <<CloseTag(f.kind)>>
         /\ last' = [h |-> f.opener, op |-> "return", res |-> "none", moved |-> TRUE,
                     susp |-> FALSE, inner |-> TRUE]
         /\ clean' = (clean /\ (f.kind = "object" => TopOf(sc).vh = 0))
         /\ acc' = IF clean' THEN Fold(acc, f.kind) ELSE <<>>
  /\ stack' = Pop(stack)
  /\ sc' = Pop(sc)
  /\ terms' = [terms EXCEPT !.n = @ + 1]
  /\ UNCHANGED <<mode, phase, pos, exc, wrote, got, sk, rk, nops, nscope>>

\* The exception in flight leaves the innermost callback, and with it the
\* writeArray / writeObject / getArray / getObject call that ran it: nothing
\* after the call of func is executed.
Unwind ==
  /\ mode \in {"writer", "reader"} /\ exc /= "none" /\ stack /= <<>>
  /\ stack' = Pop(stack)
  /\ sc' = Pop(sc)
  /\ clean' = FALSE
  /\ acc' = <<>>
  /\ last' = [h |-> TopOf(stack).opener, op |-> "unwind", res |-> exc, moved |-> FALSE,
              susp |-> FALSE, inner |-> TRUE]
  /\ UNCHANGED <<mode, phase, os, pos, hs, exc, wrote, got, sk, rk, nops, nscope, terms>>

\* A try/catch of the program around the failed call catches the exception.
Catch ==
  /\ mode \in {"writer", "reader"} /\ exc /= "none"
  /\ exc' = "none"
  /\ UNCHANGED <<mode, phase, os, pos, hs, stack, last, wrote, got, sk, rk, sc, acc,
                 clean, nops, nscope, terms>>

\* A document written in keeping with the call discipline is handed to a fresh
\* Reader, whole or cut after rk bytes, which decodes its first value ...
DecodeDoc(k) ==
  /\ mode = "writer" /\ phase = "run" /\ exc = "none" /\ stack = <<>>
  /\ clean /\ os /= <<>>
  /\ rk' = k
  /\ got' = decode(SubSeq(os, 1, k), 0)
  /\ phase' = "decoded"
  /\ UNCHANGED <<mode, os, pos, hs, stack, exc, last, wrote, sk, sc, acc, clean, nops,
                 nscope, terms>>

\* ... and, from the start again, skips it.
SkipDoc ==
  /\ mode = "writer" /\ phase = "decoded"
  /\ sk' = skip(SubSeq(os, 1, rk), 0)
  /\ phase' = "skipped"
  /\ UNCHANGED <<mode, os, pos, hs, stack, exc, last, wrote, got, rk, sc, acc, clean,
                 nops, nscope, terms>>

NextWriter ==
  \/ \E h \in 1..Len(hs), o \in WriterOps : WriteScalar(h, o)
  \/ \E h \in 1..Len(hs), kind \in {"array", "object"} : WriteOpen(h, kind)
  \/ \E h \in 1..Len(hs), key \in Keys : WriteKey(h, key)
  \/ WriteReturn
  \/ Unwind
  \/ Catch
  \/ \E k \in 0..Len(os) : DecodeDoc(k)
  \/ SkipDoc

SpecWriter == InitWriter /\ [][NextWriter]_vars

\* ------------------------------------- program 3: a Reader and its handles
\* Handle 1 is the Reader the program constructs on the stream.
ReaderDocs ==
  {<<TagArray, TagTrue, TagArray, TagNull, TagArrayEnd, TagArrayEnd>>,
   <<TagObject, 120, 0, TagArray, TagFalse, TagArrayEnd, TagObjectEnd>>,
   <<TagObject, TagObjectEnd, 0, TagTrue, TagObjectEnd>>,
   <<TagPlus, 128, 1, TagString, 120, 0>>,
   <<TagArray>>}

ReaderOps ==
  {"getType", "getBool", "getNil", "getString", "skipString", "getBinary", "skipBinary",
   "getFloat", "getDouble", "getInt", "getUInt", "skip"}

InitReader ==
  /\ mode = "reader" /\ phase = "run"
  /\ os \in ReaderDocs /\ pos = 0
  /\ hs = <<Handle("Reader", 0)>> /\ stack = <<>> /\ exc = "none" /\ last = NoLast
  /\ wrote = NoValue /\ got = NoResult /\ sk = NoResult /\ rk = 0
  /\ sc = <<Scope("top", 1)>> /\ acc = <<>> /\ clean = FALSE
  /\ nops = 0 /\ nscope = 0 /\ terms = NoTerms

readScalar(op, is, p) ==
  CASE op = "getType" -> R(getType(is, p).err, p, NoValue)
    [] op = "getBool" -> getBool(is, p)
    [] op = "getNil" -> getNil(is, p)
    [] op = "getString" -> getString(is, p)
    [] op = "skipString" -> skipString(is, p)
    [] op = "getBinary" -> getBinary(is, p)
    [] op = "skipBinary" -> skipBinary(is, p)
    [] op = "getFloat" -> getFloat(is, p)
    [] op = "getDouble" -> getDouble(is, p)
    [] op = "getInt" -> getInt(is, p)
    [] op = "getUInt" -> getUInt(is, p)
    [] op = "skip" -> skip(is, p)

\* getType .. getUInt and skip on the Reader handle h
ReadScalar(h, op) ==
  /\ CanIssue("reader")
  /\ hs[h].kind = "Reader"
  /\ LET ok == checkReady(h)
         r == IF ok THEN readScalar(op, os, pos) ELSE R("LogicError", pos, NoValue)
         inner == (TopOf(sc).vh = h)
     IN  /\ pos' = r.pos
         /\ exc' = r.err
         /\ got' = r
         /\ last' = [h |-> h, op |-> op, res |-> r.err, moved |-> pos' /= pos,
                     susp |-> HasOpenScope(h), inner |-> inner]
         /\ sc' = IF r.err = "none" /\ inner /\ op /= "getType" THEN Spend(sc) ELSE sc
  /\ nops' = nops + 1
  /\ UNCHANGED <<mode, phase, os, hs, stack, wrote, sk, rk, acc, clean, nscope, terms>>

\* Reader::hasNext on the Reader handle h: no checkReady, a peek
ReadHasNext(h) ==
  /\ CanIssue("reader")
  /\ hs[h].kind = "Reader"
  /\ last' = [h |-> h, op |-> "hasNext", res |-> "none", moved |-> FALSE,
              susp |-> HasOpenScope(h), inner |-> (TopOf(sc).vh = h)]
  /\ got' = R("none", pos, VBool(peek(os, pos) /= EOF))
  /\ nops' = nops + 1
  /\ UNCHANGED <<mode, phase, os, pos, hs, stack, exc, wrote, sk, rk, sc, acc, clean,
                 nscope, terms>>

\* getArray / getObject on the Reader handle h, up to the call of func
ReadOpen(h, kind) ==
  /\ CanIssue("reader")
  /\ hs[h].kind = "Reader"
  /\ LET ready == checkReady(h)
         r == IF ~ready THEN R("LogicError", pos, NoValue)
              ELSE OpenScope(os, pos, OpenTag(kind))
         ok == r.err = "none"
         inner == (TopOf(sc).vh = h)
     IN  /\ pos' = r.pos
         /\ exc' = r.err
         /\ got' = r
         /\ last' = [h |-> h, op |-> IF kind = "array" THEN "getArray" ELSE "getObject",
                     res |-> r.err, moved |-> pos' /= pos,
                     susp |-> HasOpenScope(h), inner |-> inner]
         /\ hs' = IF ~ok THEN hs
                  ELSE Append(Suspend(h),
                              Handle(IF kind = "array" THEN "ArrayReader" ELSE "ObjectReader",
                                     nscope + 1))
         /\ stack' = IF ok THEN Append(stack, Frame(nscope + 1, kind, h)) ELSE stack
         /\ nscope' = IF ok THEN nscope + 1 ELSE nscope
         /\ sc' = IF ~ok THEN sc
                  ELSE Append(IF inner THEN Spend(sc) ELSE sc,
                              Scope(IF kind = "array" THEN "elements" ELSE "object", 0))
  /\ nops' = nops + 1
  /\ UNCHANGED <<mode, phase, os, wrote, sk, rk, acc, clean, terms>>

\* ArrayReader::hasNext / ObjectReader::hasNext on the handle h
ScopeHasNext(h) ==
  /\ CanIssue("reader")
  /\ hs[h].kind \in {"ArrayReader", "ObjectReader"}
  /\ last' = [h |-> h, op |-> "hasNext", res |-> "none", moved |-> FALSE,
              susp |-> HasOpenScope(h),
              inner |-> (hs[h].home = CurScope /\ TopOf(sc).vh = 0)]
  /\ got' = R("none", pos, VBool(IF hs[h].kind = "ArrayReader" THEN ArrayHasNext(os, pos)
                                 ELSE ObjectHasNext(os, pos)))
  /\ nops' = nops + 1
  /\ UNCHANGED <<mode, phase, os, pos, hs, stack, exc, wrote, sk, rk, sc, acc, clean,
                 nscope, terms>>

\* ArrayReader::next / ObjectReader::next on the handle h
ScopeNext(h) ==
  /\ CanIssue("reader")
  /\ hs[h].kind \in {"ArrayReader", "ObjectReader"}
  /\ LET r == IF hs[h].kind = "ArrayReader" THEN R("none", pos, NoValue)
              ELSE ObjectNext(os, pos)
         ok == r.err = "none"
         inner == (hs[h].home = CurScope /\ TopOf(sc).vh = 0)
     IN  /\ pos' = r.pos
         /\ exc' = r.err
         /\ got' = r
         /\ last' = [h |-> h, op |-> "next", res |-> r.err, moved |-> pos' /= pos,
                     susp |-> HasOpenScope(h), inner |-> inner]
         /\ hs' = IF ok THEN Append(hs, Handle("Reader", hs[h].home)) ELSE hs
         /\ sc' = IF ok /\ inner THEN SetTop(sc, Scope(TopOf(sc).kind, Len(hs) + 1)) ELSE sc
  /\ nops' = nops + 1
  /\ UNCHANGED <<mode, phase, os, stack, wrote, sk, rk, acc, clean, nscope, terms>>

\* func returns: the rest of getArray / getObject
ReadReturn ==
  /\ mode = "reader" /\ phase = "run" /\ exc = "none" /\ stack /= <<>>
  /\ LET f == TopOf(stack)
         r == CloseScope(os, pos, CloseTag(f.kind))
     IN  /\ hs' = Resume(f.opener)
         /\ pos' = r.pos
         /\ exc' = r.err
         /\ got' = r
         /\ terms' = IF r.err = "none" THEN [terms EXCEPT !.n = @ + 1]
                     ELSE [terms EXCEPT !.miss = @ + 1]
         /\ last' = [h |-> f.opener, op |-> "return", res |-> r.err, moved |-> pos' /= pos,
                     susp |-> FALSE, inner |-> TRUE]
  /\ stack' = Pop(stack)
  /\ sc' = Pop(sc)
  /\ UNCHANGED <<mode, phase, os, wrote, sk, rk, acc, clean, nops, nscope>>

NextReader ==
  \/ \E h \in 1..Len(hs), op \in ReaderOps : ReadScalar(h, op)
  \/ \E h \in 1..Len(hs) : ReadHasNext(h)
  \/ \E h \in 1..Len(hs), kind \in {"array", "object"} : ReadOpen(h, kind)
  \/ \E h \in 1..Len(hs) : ScopeHasNext(h)
  \/ \E h \in 1..Len(hs) : ScopeNext(h)
  \/ ReadReturn
  \/ Unwind
  \/ Catch

SpecReader == InitReader /\ [][NextReader]_vars

\* ------------------------------------------------------- the three programs
Init == InitScalar \/ InitWriter \/ InitReader

Next == NextScalar \/ NextWriter \/ NextReader

Spec == Init /\ [][Next]_vars

\* ============================================================ properties

\* The encoding the wire format prescribes for a value: a container is its
\* opening tag, its entries in order (for an object each key, a NUL, the value)
\* and its closing tag, with no count or length; a scalar is what its Writer
\* operation emits.
RECURSIVE Enc(_), EncEntries(_, _, _)
Enc(v) ==
  IF v.t = "array" THEN <<TagArray>> \o EncEntries(<<>>, v.c, 1) \o <<TagArrayEnd>>
  ELSE IF v.t = "object" THEN <<TagObject>> \o EncEntries(v.k, v.c, 1) \o <<TagObjectEnd>>
  ELSE writeScalar(v)

\* entries j.. of a container; a key whose value is still being written comes last
EncEntries(k, c, j) ==
  IF j > Len(c) THEN (IF j <= Len(k) THEN k[j] \o <<0>> ELSE <<>>)
  ELSE (IF j <= Len(k) THEN k[j] \o <<0>> ELSE <<>>) \o Enc(c[j]) \o EncEntries(k, c, j + 1)

\* the bytes due once the scopes i.. have received what `acc` records
RECURSIVE EncOpen(_)
EncOpen(i) ==
  IF i > Len(acc) THEN <<>>
  ELSE (IF i = 1 THEN <<>> ELSE <<OpenTag(stack[i - 1].kind)>>)
       \o EncEntries(acc[i].k, acc[i].c, 1) \o EncOpen(i + 1)

\* a non-negative integer reads back through the unsigned operation (getType)
RECURSIVE Canon(_)
Canon(v) ==
  IF v.t = "int" /\ ~IsNeg64(v.n) THEN VUInt(v.n)
  ELSE [v EXCEPT !.c = [j \in 1..Len(v.c) |-> Canon(v.c[j])]]

WriterOpNames ==
  {"writeTrue", "writeFalse", "writeBool", "writeNull", "writeString", "writeFloat",
   "writeDouble", "writeBinary", "writeInt", "writeUInt", "writeArray", "writeObject"}

ReadBack == mode = "writer" /\ phase \in {"decoded", "skipped"}
FirstValue == acc[1].c[1]
FirstLen == Len(Enc(FirstValue))

\* C1: while a scope opened by a Writer's writeArray or writeObject is still
\* open, every write operation invoked on that Writer fails with LogicError and
\* appends no byte to the stream.
C1_SuspendedWriterRejects ==
  (mode = "writer" /\ last.op \in WriterOpNames /\ last.susp)
    => (last.res = "LogicError" /\ ~last.moved)

C1_Witness ==
  /\ mode = "writer" /\ last.op = "writeDouble" /\ last.susp
  /\ last.res = "LogicError" /\ stack /= <<>> /\ os = <<TagObject>>

\* C2: a scalar written by the Writer operation of its type and read by the
\* matching Reader operation comes back unchanged, and the read consumes
\* exactly the bytes written.
C2_ScalarRoundTrip ==
  (mode = "scalar" /\ phase = "read")
    => (got.err = "none" /\ got.val = wrote /\ got.pos = Len(os))

C2_Witness ==
  /\ mode = "scalar" /\ phase = "read"
  /\ wrote = VInt(Int64Min) /\ got.val = VInt(Int64Min) /\ got.pos = 11

\* C3: a tree of arrays and objects, with any NUL-free keys, read back from
\* the bytes written for it is the same tree, entry for entry and in order.
C3_ContainerRoundTrip ==
  (ReadBack /\ rk >= FirstLen /\ FirstValue.t \in {"array", "object"})
    => (got.err = "none" /\ Canon(got.val) = Canon(FirstValue))

\* bit q of the number a LEB128 byte sequence carries
GroupBit(bytes, q) ==
  IF (q \div 7) < Len(bytes) THEN (bytes[(q \div 7) + 1] \div 2^(q % 7)) % 2 ELSE 0
GroupLimb(bytes, i) ==
  LET b(j) == GroupBit(bytes, 16 * i + j) * 2^j
  IN  b(0) + b(1) + b(2) + b(3) + b(4) + b(5) + b(6) + b(7)
      + b(8) + b(9) + b(10) + b(11) + b(12) + b(13) + b(14) + b(15)
GroupValue(bytes) ==
  <<GroupLimb(bytes, 0), GroupLimb(bytes, 1), GroupLimb(bytes, 2), GroupLimb(bytes, 3)>>

\* `bytes` is the varint of the magnitude m: continuation bit on all bytes but
\* the last, no more groups than m needs, and the groups recombine to m
IsVarintOf(bytes, m) ==
  LET k == Len(bytes)
  IN  /\ k >= 1 /\ k <= 10
      /\ \A i \in 1..(k - 1) : bytes[i] >= 128
      /\ bytes[k] < 128
      /\ (k > 1 => bytes[k] /= 0)
      /\ (k = 10 => bytes[k] <= 1)
      /\ GroupValue(bytes) = m

\* C4: writeInt and writeUInt emit the digit for 0..9 and otherwise '+' or
\* '-' (writeInt of a negative number only) followed by the little-endian
\* base-128 varint of the magnitude, of minimal length.
C4_IntegerWireFormat ==
  (mode = "scalar" /\ phase /= "start" /\ wrote.t \in {"int", "uint"})
    => LET n == wrote.n
           neg == wrote.t = "int" /\ IsNeg64(n)
       IN  IF ~neg /\ Small64(n) /\ n[1] <= 9
           THEN os = <<TagZero + n[1]>>
           ELSE /\ os[1] = (IF neg THEN TagMinus ELSE TagPlus)
                /\ LET m == GroupValue(Tail(os))
                   IN  /\ IsVarintOf(Tail(os), m)
                       /\ IF neg THEN Add64(n, m) = Zero64 ELSE m = n
                /\ (n = U64(127) => Len(os) = 2)
                /\ (n = U64(128) => Len(os) = 3)
                /\ (n = <<W16 - 1, W16 - 1, 0, 0>> => Len(os) = 6)
                /\ (~neg /\ n = <<W16 - 1, W16 - 1, W16 - 1, W16 - 1>> => Len(os) = 11)

C4_Witness ==
  /\ mode = "scalar" /\ phase = "written" /\ wrote = VUInt(<<W16 - 1, W16 - 1, W16 - 1, W16 - 1>>)
  /\ os = <<TagPlus, 255, 255, 255, 255, 255, 255, 255, 255, 255, 1>>

C6_SkipEquivalence ==
  (mode = "writer" /\ phase = "skipped" /\ rk >= FirstLen)
    => (sk.err = "none" /\ sk.pos = got.pos /\ sk.pos = FirstLen)

\* C7: decoding or skipping a proper prefix of a valid encoded value never
\* returns successfully: it fails with ParseError.
C7_TruncationFails ==
  (mode = "writer" /\ phase = "skipped" /\ rk < FirstLen)
    => (got.err = "ParseError" /\ sk.err = "ParseError")

\* C8: every scope that has been opened and left has had its terminator
\* written (consumed) exactly once, however the callback was left.
C8_TerminatorExactlyOnce ==
  mode \in {"writer", "reader"} => terms.n + terms.miss = nscope - Len(stack)

\* C9: a Writer or Reader handle is suspended exactly while a scope it opened
\* is open; once the opening call is over the handle is ready again.
C9_ReadyIffNoOpenScope ==
  mode \in {"writer", "reader"}
    => \A h \in 1..Len(hs) :
         hs[h].kind \in {"Writer", "Reader"} => (~hs[h].ready <=> HasOpenScope(h))

\* the operations that write or consume bytes (hasNext and getType peek, and
\* ArrayReader::next only hands out a Reader)
MovingOp ==
  \/ last.op \in WriterOpNames \cup {"key", "getArray", "getObject"}
  \/ last.op \in ReaderOps \ {"getType"}
  \/ last.op = "next" /\ hs[last.h].kind = "ObjectReader"

GuardedOps == WriterOpNames \cup ReaderOps \cup {"getArray", "getObject"}

====
